---- MODULE Spec2Model ----
(***************************************************************************)
(* Review-to-action analysis pipeline: add_sentiment (nlp.py),             *)
(* cluster_issues (nlp.py) and compute_issue_table (scoring.py), as they   *)
(* are chained by the shared-analysis block of app.py.                     *)
(*                                                                         *)
(* Numbers.  A compound score is an integer number of 1/10000 (VADER       *)
(* rounds the compound to 4 decimals).  Means and products are kept as     *)
(* exact fractions num/den and rounded, half to even, only where the code  *)
(* calls round(); binary floating point error is not modelled.             *)
(*                                                                         *)
(* Text.  A string the code inspects character by character (keywords,     *)
(* triggers) is a sequence of one-character strings.  A review text is     *)
(* the pair of what the two libraries read from it: the set of terms the   *)
(* TF-IDF vectorizer extracts and the compound score VADER returns.        *)
(*                                                                         *)
(* Storage.  The reviews table of db.py is the set of its rows; a column   *)
(* that may be NULL holds <<>> for NULL and <<v>> for the value v.         *)
(***************************************************************************)
EXTENDS Integers, Sequences, FiniteSets, TLC

VARIABLES df, n_clusters, df_sent, df_clustered, cluster_keywords,
          issue_table, pc, exc, prev,
          reviews, last_id, ret, op

\* The analysis of one run of the script.
appvars == <<df, n_clusters, df_sent, df_clustered, cluster_keywords,
             issue_table, pc, exc, prev>>

\* The reviews table, its AUTOINCREMENT counter, and the last call of a
\* function of db.py with what it returned.
dbvars == <<reviews, last_id, ret, op>>

vars == <<appvars, dbvars>>

\* ------------------------------------------------------------------ bounds

MaxSentRows == 2
MaxClusterRows == 6
MaxCount == 12
MaxRequested == 14
MaxScoreRows == 3
MaxReviews == 5
MaxId == 3
MaxInsert == 2

\* ----------------------------------------------------------------- helpers

Max(a, b) == IF a >= b THEN a ELSE b

Min(a, b) == IF a <= b THEN a ELSE b

Range(s) == {s[i] : i \in DOMAIN s}

SeqsUpTo(S, n) == UNION {[1..k -> S] : k \in 0..n}

\* The arrangements of a finite set as sequences.
RECURSIVE PermSeqs(_)
PermSeqs(S) ==
    IF S = {} THEN {<<>>}
    ELSE UNION {{<<x>> \o q : q \in PermSeqs(S \ {x})} : x \in S}

\* Python's round(): to the nearest, a half to the even neighbour; num/den
\* with den > 0, the result an integer.
RoundHalfEven(num, den) ==
    LET q == num \div den
        r == num - q * den
    IN  IF 2 * r < den THEN q
        ELSE IF 2 * r > den THEN q + 1
        ELSE IF q % 2 = 0 THEN q ELSE q + 1

RECURSIVE GCD(_, _)
GCD(a, b) == IF b = 0 THEN a ELSE GCD(b, a % b)

Abs(x) == IF x < 0 THEN -x ELSE x

\* Exact fractions [n, d] in lowest terms, d > 0: the values of the float
\* arithmetic of compute_issue_table without its rounding error.
Frac(n, d) ==
    LET g == GCD(Abs(n), d)
    IN  [n |-> n \div g, d |-> d \div g]

FMul(a, b) ==
    LET g1 == GCD(Abs(a.n), b.d)
        g2 == GCD(Abs(b.n), a.d)
    IN  Frac((a.n \div g1) * (b.n \div g2), (a.d \div g2) * (b.d \div g1))

FMulInt(a, k) == FMul(a, Frac(k, 1))

FDivInt(a, k) == FMul(a, Frac(1, k))

Pow10(k) == IF k = 1 THEN 10 ELSE IF k = 2 THEN 100 ELSE 1000

\* round(a, digits), as the integer number of 10^-digits.
FRound(a, digits) ==
    LET g == GCD(Pow10(digits), a.d)
    IN  RoundHalfEven(a.n * (Pow10(digits) \div g), a.d \div g)

\* df[name] = val on one row: the row with the column added (or replaced).
WithColumn(row, name, val) ==
    [f \in (DOMAIN row) \cup {name} |-> IF f = name THEN val ELSE row[f]]

\* ----------------------------------------------------------------- strings

UpperAlpha == <<"A","B","C","D","E","F","G","H","I","J","K","L","M","N","O","P","Q","R","S","T","U","V","W","X","Y","Z">>

LowerAlpha == <<"a","b","c","d","e","f","g","h","i","j","k","l","m","n","o","p","q","r","s","t","u","v","w","x","y","z">>

LowerChar(c) ==
    IF \E i \in DOMAIN UpperAlpha : UpperAlpha[i] = c
    THEN LowerAlpha[CHOOSE i \in DOMAIN UpperAlpha : UpperAlpha[i] = c]
    ELSE c

\* str.lower()
Lower(s) == [i \in 1..Len(s) |-> LowerChar(s[i])]

\* sep.join(parts)
RECURSIVE Join(_, _)
Join(parts, sep) ==
    IF Len(parts) = 0 THEN <<>>
    ELSE IF Len(parts) = 1 THEN parts[1]
    ELSE parts[1] \o sep \o Join(Tail(parts), sep)

\* needle in hay
Contains(hay, needle) ==
    \E i \in 1..(Len(hay) - Len(needle) + 1) :
        SubSeq(hay, i, i + Len(needle) - 1) = needle

\* ------------------------------------------------------- nlp.add_sentiment

\* Units of a compound score: 1/10000.
CompoundScale == 10000

\* _analyzer.polarity_scores(t)["compound"]
PolarityCompound(t) == t.compound

\* pd.cut(bins=[-1.01, -0.05, 0.05, 1.01]): each bin is open on the left and
\* closed on the right (right=True is the default); a value in no bin is NaN.
CutLabel(x) ==
    IF x > -10100 /\ x <= -500 THEN "negative"
    ELSE IF x > -500 /\ x <= 500 THEN "neutral"
    ELSE IF x > 500 /\ x <= 10100 THEN "positive"
    ELSE "NaN"

add_sentiment(d) ==
    [i \in 1..Len(d) |->
        LET c == PolarityCompound(d[i].review_text)
        IN  WithColumn(WithColumn(d[i], "sentiment_compound", c),
                       "sentiment_label", CutLabel(c))]

\* ----------------------------------------------------------------- scoring

ACTION_RULES == <<
    [triggers |-> << <<"w","a","i","t">>, <<"l","i","n","e">>, <<"s","l","o","w">>,
                     <<"m","i","n","u","t","e","s">> >>,
     action |-> "Reduce wait times: add staff at peak hours, simplify workflow, prep high-demand items."],
    [triggers |-> << <<"r","u","d","e">>, <<"a","t","t","i","t","u","d","e">>,
                     <<"u","n","f","r","i","e","n","d","l","y">> >>,
     action |-> "Improve service: quick staff coaching, greeting script, and manager follow-up on complaints."],
    [triggers |-> << <<"d","i","r","t","y">>, <<"c","l","e","a","n">>,
                     <<"b","a","t","h","r","o","o","m">>, <<"m","e","s","s">> >>,
     action |-> "Improve cleanliness: add cleaning checklist and assign ownership per shift."],
    [triggers |-> << <<"p","r","i","c","e">>, <<"e","x","p","e","n","s","i","v","e">>,
                     <<"c","o","s","t">> >>,
     action |-> "Address pricing: highlight value, add bundles, or adjust portion/quality messaging."],
    [triggers |-> << <<"c","o","l","d">>, <<"h","o","t">>,
                     <<"t","e","m","p","e","r","a","t","u","r","e">> >>,
     action |-> "Fix temperature/quality: check holding times, packaging, and handoff process."],
    [triggers |-> << <<"s","c","h","e","d","u","l","e">>,
                     <<"a","p","p","o","i","n","t","m","e","n","t">>,
                     <<"b","o","o","k","i","n","g">> >>,
     action |-> "Fix scheduling: tighten booking rules, add buffer time, and confirm appointments."] >>

FallbackAction == "Review top quotes and implement a simple SOP change; measure results weekly."

\* The keyword cues that raise the ease heuristic.
EaseCues == << <<"c","l","e","a","n">>, <<"b","a","t","h","r","o","o","m">>,
               <<"s","t","a","f","f">>, <<"w","a","i","t">>, <<"l","i","n","e">>,
               <<"s","c","h","e","d","u","l","e">> >>

\* The joined keywords without .lower().
JoinedRaw(keywords) == Join(keywords, <<" ">>)

\* " ".join(keywords).lower()
JoinedLower(keywords) == Lower(Join(keywords, <<" ">>))

issue_name_from_keywords(keywords) ==
    IF Len(keywords) = 0 THEN <<"G","e","n","e","r","a","l">>
    ELSE Join(SubSeq(keywords, 1, Min(3, Len(keywords))), <<",", " ">>)

\* any(t in kws for t in triggers)
AnyTrigger(kws, triggers) ==
    \E j \in DOMAIN triggers : Contains(kws, triggers[j])

\* The for loop of recommended_action from rule i on.
RECURSIVE ScanRules(_, _)
ScanRules(kws, i) ==
    IF i > Len(ACTION_RULES) THEN FallbackAction
    ELSE IF AnyTrigger(kws, ACTION_RULES[i].triggers) THEN ACTION_RULES[i].action
    ELSE ScanRules(kws, i + 1)

recommended_action(keywords) == ScanRules(JoinedLower(keywords), 1)

\* cluster_keywords.get(cluster_id, [])
KeywordsGet(ck, c) == IF c \in DOMAIN ck THEN ck[c] ELSE <<>>

\* The positions of the rows of cluster c (df.groupby("cluster")).
Members(d, c) == {i \in 1..Len(d) : d[i].cluster = c}

RECURSIVE SumCompound(_, _)
SumCompound(d, idx) ==
    IF idx = {} THEN 0
    ELSE LET i == CHOOSE j \in idx : TRUE
         IN  d[i].sentiment_compound + SumCompound(d, idx \ {i})

\* The share computed with integer division.
FreqFractionFloor(freq, total) == IF total # 0 THEN Frac(freq \div total, 1) ELSE Frac(0, 1)

\* freq_pct = freq / total if total else 0.0
FreqFraction(freq, total) == IF total # 0 THEN Frac(freq, total) ELSE Frac(0, 1)

\* avg_comp = float(sub["sentiment_compound"].mean())
AvgCompound(sum, freq) == Frac(sum, freq * CompoundScale)

\* The severity with the sign of the average kept: (avg_comp + 1) / 2.
SeverityFlipped(avg) ==
    LET x == Frac(avg.d + avg.n, 2 * avg.d)
    IN  IF x.n < 0 THEN Frac(0, 1) ELSE x

\* severity = max(0.0, (-avg_comp + 1) / 2)
Severity(avg) ==
    LET x == Frac(avg.d - avg.n, 2 * avg.d)
    IN  IF x.n < 0 THEN Frac(0, 1) ELSE x

\* ease = 0.65, or 0.75 when a cue occurs in the joined keywords.
Ease(kws) ==
    IF AnyTrigger(JoinedLower(kws), EaseCues) THEN Frac(75, 100) ELSE Frac(65, 100)

\* The priority with the ease left as a fraction of 1.
PriorityEaseUnscaled(freq_pct, severity, ease) ==
    FDivInt(FMul(FMul(FMulInt(freq_pct, 100), FMulInt(severity, 100)), ease), 10000)

\* priority = (freq_pct * 100) * (severity * 100) * (ease * 100) / 10000
Priority(freq_pct, severity, ease) ==
    FDivInt(FMul(FMul(FMulInt(freq_pct, 100), FMulInt(severity, 100)),
                 FMulInt(ease, 100)),
            10000)

\* One row of the issue table.  A rounded column is the integer number of its
\* last decimal: frequency_pct in 1/10, avg_sentiment and the two scores in
\* 1/1000, priority_score in 1/100.
IssueRow(d, ck, c) ==
    LET total == Len(d)
        freq == Cardinality(Members(d, c))
        freq_pct == FreqFraction(freq, total)
        avg_comp == AvgCompound(SumCompound(d, Members(d, c)), freq)
        severity == Severity(avg_comp)
        kws == KeywordsGet(ck, c)
        ease == Ease(kws)
        priority == Priority(freq_pct, severity, ease)
    IN  [cluster |-> c,
         issue_label |-> issue_name_from_keywords(kws),
         frequency |-> freq,
         frequency_pct |-> FRound(FMulInt(freq_pct, 100), 1),
         avg_sentiment |-> FRound(avg_comp, 3),
         severity_score_0_1 |-> FRound(severity, 3),
         ease_to_fix_0_1 |-> FRound(ease, 3),
         priority_score |-> FRound(priority, 2),
         recommended_action |-> recommended_action(kws)]

\* The group keys in the order groupby visits them: ascending.
RECURSIVE SortedKeys(_)
SortedKeys(S) ==
    IF S = {} THEN <<>>
    ELSE LET m == CHOOSE x \in S : \A y \in S : x <= y
         IN  <<m>> \o SortedKeys(S \ {m})

\* rows, as the loop of compute_issue_table appends them.
IssueRows(d, ck) ==
    LET keys == SortedKeys({d[i].cluster : i \in 1..Len(d)})
    IN  [k \in 1..Len(keys) |-> IssueRow(d, ck, keys[k])]

\* sort_values("priority_score", ascending=False) with the default
\* kind="quicksort", which is not a stable sort: every arrangement of the rows
\* in descending priority_score is a possible result.
SortedTables(rows) ==
    {[k \in 1..Len(rows) |-> rows[q[k]]] : q \in
        {p \in PermSeqs(1..Len(rows)) : \A k \in 1..(Len(rows) - 1) :
            rows[p[k]].priority_score >= rows[p[k + 1]].priority_score}}

\* compute_issue_table(df, cluster_keywords): the tables it can return, or the
\* exception it raises.  With no rows, pd.DataFrame([]) has no columns and
\* sort_values("priority_score") raises KeyError.
compute_issue_table(d, ck) ==
    IF Len(d) = 0 THEN {[status |-> "KeyError"]}
    ELSE {[status |-> "ok", table |-> t] : t \in SortedTables(IssueRows(d, ck))}

\* ------------------------------------------------------ nlp.cluster_issues

MinReviews == 5

TopTerms == 8

\* The clamp without its outer max(2, ...).
EffectiveKNoFloor(k, n) == Min(k, Max(2, n \div 3))

\* n_clusters = max(2, min(n_clusters, max(2, len(texts)//3)))
EffectiveK(k, n) == Max(2, Min(k, Max(2, n \div 3)))

\* texts = df["review_text"].astype(str).tolist()
TextsOf(d) == [i \in 1..Len(d) |-> d[i].review_text]

\* vect.get_feature_names_out(): the terms of all the texts.
Vocabulary(texts) == UNION {texts[i].terms : i \in 1..Len(texts)}

\* The row of X = vect.fit_transform(texts) for a text: texts with the same
\* terms have the same row.
VectorOf(t) == t.terms

\* clusters = KMeans(n_clusters=k, n_init=10, random_state=42).fit_predict(X).
\* The library fixes this much: a label in 0..k-1 for each row, equal rows get
\* the same label (the nearest centre), and the labels in use are
\* 0..min(k, number of distinct rows)-1: with fewer distinct rows than centres
\* the spare centres duplicate earlier ones and stay empty.  Which row gets
\* which label depends on the seeded choice of the initial centres among the
\* row positions, so it is left open here.
KMeansLabelings(texts, k) ==
    LET vecs == {VectorOf(texts[i]) : i \in 1..Len(texts)}
        m == Min(k, Cardinality(vecs))
        gs == {g \in [vecs -> 0..(m - 1)] : \A c \in 0..(m - 1) : \E v \in vecs : g[v] = c}
    IN  {[i \in 1..Len(texts) |-> g[VectorOf(texts[i])]] : g \in gs}

\* terms[mean_tfidf.argsort()[::-1][:8]] for the rows idx of one cluster: the
\* terms that occur in a member (mean weight > 0) come before the terms that
\* occur in none (mean weight 0); the order inside each group follows the
\* weights and, among equal weights, the sort, and is left open.
TopKeywordLists(texts, idx) ==
    LET voc == Vocabulary(texts)
        present == UNION {texts[i].terms : i \in idx}
        orders == {p \o q : p \in PermSeqs(present), q \in PermSeqs(voc \ present)}
    IN  {SubSeq(o, 1, Min(TopTerms, Len(o))) : o \in orders}

EmptyKeywords == << <<"(","e","m","p","t","y",")">> >>

MixedKeywords == << <<"m","i","x","e","d">> >>

\* The keyword loop running over range(1, n_clusters + 1).
ClusterKeywordMapsFromOne(texts, clusters, k) ==
    LET idx(c) == {i \in 1..Len(texts) : clusters[i] = c}
        choices(c) == IF idx(c) = {} THEN {EmptyKeywords}
                      ELSE TopKeywordLists(texts, idx(c))
    IN  {ck \in [1..k -> UNION {choices(c) : c \in 1..k}] :
            \A c \in 1..k : ck[c] \in choices(c)}

\* The for loop over range(n_clusters): the keyword mappings it can build.
ClusterKeywordMaps(texts, clusters, k) ==
    LET idx(c) == {i \in 1..Len(texts) : clusters[i] = c}
        choices(c) == IF idx(c) = {} THEN {EmptyKeywords}
                      ELSE TopKeywordLists(texts, idx(c))
    IN  {ck \in [0..(k - 1) -> UNION {choices(c) : c \in 0..(k - 1)}] :
            \A c \in 0..(k - 1) : ck[c] \in choices(c)}

\* The size test with the threshold one too low.
TooFewStrict(texts) == Len(texts) < MinReviews - 1

\* if len(texts) < 5
TooFew(texts) == Len(texts) < MinReviews

\* df2 = df.copy(); df2["cluster"] = clusters
WithClusters(d, clusters) ==
    [i \in 1..Len(d) |-> WithColumn(d[i], "cluster", clusters[i])]

\* cluster_issues(df, n_clusters): the (df2, cluster_keywords) pairs it can
\* return, or the exception it raises (TfidfVectorizer raises ValueError on an
\* empty vocabulary).  memo holds the previous call, if any: random_state=42
\* makes the fit a function of its input, so the same texts and cluster count
\* give the same labels and keywords again.
cluster_issues(d, k, memo) ==
    LET texts == TextsOf(d)
        keff == EffectiveK(k, Len(texts))
    IN  IF TooFew(texts)
        THEN {[status |-> "ok",
               df2 |-> [i \in 1..Len(d) |-> WithColumn(d[i], "cluster", 0)],
               keywords |-> [c \in {0} |-> MixedKeywords]]}
        ELSE IF Vocabulary(texts) = {}
        THEN {[status |-> "ValueError"]}
        ELSE IF /\ Len(memo) > 0
                /\ memo[1].texts = texts
                /\ memo[1].k = keff
        THEN {[status |-> "ok",
               df2 |-> WithClusters(d, memo[1].clusters),
               keywords |-> memo[1].keywords]}
        ELSE {[status |-> "ok", df2 |-> WithClusters(d, cl), keywords |-> ck] :
                <<cl, ck>> \in
                    UNION {{<<l, m>> : m \in ClusterKeywordMaps(texts, l, keff)} :
                           l \in KMeansLabelings(texts, keff)}}

\* ------------------------------------------------------------------ inputs

Row(t) == [review_text |-> t]

Term_wait == <<"w","a","i","t">>

Term_food == <<"f","o","o","d">>

\* Review texts for the sentiment stage: one per compound score of interest,
\* the two label thresholds and their neighbours among them.
SentimentCompounds == {-10000, -501, -500, -499, 0, 499, 500, 501, 10000}

SentimentTexts == {[terms |-> {Term_wait}, compound |-> c] : c \in SentimentCompounds}

\* Review texts for the clustering stage: two with different terms and one
\* made of stop words only (no terms).
ClusterTexts ==
    {[terms |-> {Term_wait}, compound |-> -6000],
     [terms |-> {Term_food}, compound |-> 7000],
     [terms |-> {}, compound |-> 0]}

\* Requested cluster counts: below 2, and above every review count in use.
RequestedCounts == (-1)..MaxRequested

Copies(t, n) == [i \in 1..n |-> Row(t)]

\* Clustered and scored rows for the scoring stage.
ScoreCompounds == {-10000, 0, 3333, 10000}

ScoreClusters == 0..2

ScoredRow(c, k) ==
    [review_text |-> [terms |-> {}, compound |-> c],
     sentiment_compound |-> c, sentiment_label |-> CutLabel(c), cluster |-> k]

ScoreRows == {ScoredRow(c, k) : c \in ScoreCompounds, k \in ScoreClusters}

\* Keyword lists for the scoring stage.
KeywordPool ==
    { <<"w","a","i","t">>, <<"R","U","D","E">>, <<"o","n","l","i","n","e">>,
      <<"P","r","i","c","e">>, <<"f","o","o","d">>, <<"s","t","a","f","f">>,
      <<"h","o","t","e","l">>, <<"l","o","n","g"," ","l","i","n","e">>,
      <<"c","o">>, <<"s","t">> }

MaxKeywords == 2

PlainKeywordLists == { <<Term_wait>>, <<Term_food>> }

\* The slider of app.py offers 2..12; the model offers 2..MaxSlider.
MinSlider == 2

MaxSlider == 3

PipelineTexts ==
    {[terms |-> {Term_wait}, compound |-> -6000],
     [terms |-> {Term_food}, compound |-> 7000]}

StopWordText == [terms |-> {}, compound |-> 0]

\* ------------------------------------------------------------------ actions

Unset == <<>>

\* What a later call of cluster_issues can recall of a run.
MemoOf(clustered, ck) ==
    [texts |-> TextsOf(clustered),
     k |-> Cardinality(DOMAIN ck),
     clusters |-> [i \in 1..Len(clustered) |-> clustered[i].cluster],
     keywords |-> ck]

\* A fit that recalls nothing of an earlier run (an unseeded KMeans).
MemoNone == <<>>

\* The previous run of the script, as a later fit with random_state=42
\* reproduces it.
Memo == IF Len(prev) = 0 THEN <<>>
        ELSE <<MemoOf(prev[1].df_clustered, prev[1].cluster_keywords)>>

\* A stage that wrote its columns to the caller's table itself (out = df).
AfterAlias(d, out) == out

\* out = df.copy(): the stage writes its columns to a copy, so the caller's
\* table d is after the call what it was before, whatever out has become.
AfterCopy(d, out) == d

\* df_sent = add_sentiment(df)
CallAddSentiment ==
    /\ pc = "start"
    /\ df_sent' = add_sentiment(df)
    /\ df' = AfterCopy(df, df_sent')
    /\ pc' = "scored"
    /\ UNCHANGED <<n_clusters, df_clustered, cluster_keywords, issue_table, exc, prev>>
    /\ UNCHANGED dbvars

\* df_clustered, cluster_keywords = cluster_issues(df_sent, n_clusters)
CallClusterIssues ==
    /\ pc = "scored"
    /\ \E r \in cluster_issues(df_sent, n_clusters, Memo) :
        IF r.status = "ok"
        THEN /\ df_clustered' = r.df2
             /\ cluster_keywords' = r.keywords
             /\ df_sent' = AfterCopy(df_sent, r.df2)
             /\ pc' = "clustered"
             /\ exc' = exc
        ELSE /\ pc' = "error"
             /\ exc' = r.status
             /\ UNCHANGED <<df_sent, df_clustered, cluster_keywords>>
    /\ UNCHANGED <<df, n_clusters, issue_table, prev>>
    /\ UNCHANGED dbvars

\* issue_table = compute_issue_table(df_clustered, cluster_keywords)
CallComputeIssueTable ==
    /\ pc = "clustered"
    /\ \E r \in compute_issue_table(df_clustered, cluster_keywords) :
        IF r.status = "ok"
        THEN /\ issue_table' = r.table
             /\ pc' = "done"
             /\ exc' = exc
        ELSE /\ pc' = "error"
             /\ exc' = r.status
             /\ issue_table' = issue_table
    /\ UNCHANGED <<df, n_clusters, df_sent, df_clustered, cluster_keywords, prev>>
    /\ UNCHANGED dbvars

\* The shared analysis of main(): the three stages in a row when there is at
\* least one review, and None for every result otherwise.
Analyze ==
    /\ pc = "start"
    /\ IF Len(df) >= 1
       THEN /\ df' = AfterCopy(df, add_sentiment(df))
            /\ \E r \in cluster_issues(add_sentiment(df), n_clusters, Memo) :
                IF r.status = "ok"
                THEN /\ df_sent' = AfterCopy(add_sentiment(df), r.df2)
                     /\ df_clustered' = r.df2
                     /\ cluster_keywords' = r.keywords
                     /\ \E t \in compute_issue_table(r.df2, r.keywords) :
                         IF t.status = "ok"
                         THEN /\ issue_table' = t.table
                              /\ pc' = "done"
                              /\ exc' = exc
                         ELSE /\ issue_table' = issue_table
                              /\ pc' = "error"
                              /\ exc' = t.status
                ELSE /\ df_sent' = add_sentiment(df)
                     /\ pc' = "error"
                     /\ exc' = r.status
                     /\ UNCHANGED <<df_clustered, cluster_keywords, issue_table>>
       ELSE /\ pc' = "none"
            /\ UNCHANGED <<df, df_sent, df_clustered, cluster_keywords, issue_table, exc>>
    /\ UNCHANGED <<n_clusters, prev>>
    /\ UNCHANGED dbvars

\* A later run of the script over the same reviews, fetched in another order
\* (or the same one), with the same slider value.
Rerun ==
    /\ pc = "done"
    /\ prev' = <<[df |-> df, df_sent |-> df_sent, df_clustered |-> df_clustered,
                  cluster_keywords |-> cluster_keywords, issue_table |-> issue_table]>>
    /\ \E p \in PermSeqs(1..Len(df)) : df' = [i \in 1..Len(df) |-> df[p[i]]]
    /\ df_sent' = Unset
    /\ df_clustered' = Unset
    /\ cluster_keywords' = Unset
    /\ issue_table' = Unset
    /\ pc' = "start"
    /\ UNCHANGED <<n_clusters, exc>>
    /\ UNCHANGED dbvars

\* ----------------------------------------------------------------- storage

\* The users whose workspaces the table holds.
Owners == {"alice", "bob"}

\* The source tags main() passes to insert_reviews.
Sources == {"csv_upload", "paste"}

\* The rows of a table handed to insert_reviews: one with a rating and a
\* date, and one with neither.
NewRows ==
    {[review_text |-> "great food", rating |-> <<5>>, date |-> <<"2024-01-01">>],
     [review_text |-> "slow service", rating |-> <<>>, date |-> <<>>]}

NoCall == [name |-> "none"]

\* What a call returns is kept with its type: None, insert_reviews' number of
\* rows, or fetch_reviews' table.
ReturnNone == [type |-> "None"]

\* DELETE ... and SELECT ... with no WHERE clause: every row.
OwnedByAnyone(rows, owner) == rows

\* WHERE owner = ?
OwnedBy(rows, owner) == {r \in rows : r.owner = owner}

\* INSERT INTO reviews (owner, source, review_text, rating, date): the stored
\* row.  AUTOINCREMENT gives it the id after the largest id ever used, and
\* created_at defaults to the time of the call, which is kept as the value
\* of the counter when the call began.
StoredRow(owner, source, r, id, now) ==
    [id |-> id, owner |-> owner, source |-> source,
     review_text |-> r.review_text, rating |-> r.rating, date |-> r.date,
     created_at |-> now]

\* SELECT id, source, review_text, rating, date, created_at
Selected(r) ==
    [id |-> r.id, source |-> r.source, review_text |-> r.review_text,
     rating |-> r.rating, date |-> r.date, created_at |-> r.created_at]

\* ORDER BY id DESC
RECURSIVE OrderByIdDesc(_)
OrderByIdDesc(rows) ==
    IF rows = {} THEN <<>>
    ELSE LET top == CHOOSE r \in rows : \A q \in rows : q.id <= r.id
         IN  <<top>> \o OrderByIdDesc(rows \ {top})

\* insert_reviews(owner, df, source): one INSERT for each row of df, in one
\* transaction; returns the number of rows.
insert_reviews(owner, d, source) ==
    /\ last_id + Len(d) <= MaxId
    /\ reviews' = reviews \cup
            {StoredRow(owner, source, d[i], last_id + i, last_id) : i \in 1..Len(d)}
    /\ last_id' = last_id + Len(d)
    /\ ret' = [type |-> "int", rows |-> Len(d)]
    /\ op' = [name |-> "insert_reviews", owner |-> owner]
    /\ UNCHANGED appvars

\* fetch_reviews(owner): the owner's rows, newest id first.
fetch_reviews(owner) ==
    /\ ret' = [type |-> "DataFrame",
               df |-> [k \in 1..Cardinality(OwnedBy(reviews, owner)) |->
                        Selected(OrderByIdDesc(OwnedBy(reviews, owner))[k])]]
    /\ op' = [name |-> "fetch_reviews", owner |-> owner]
    /\ UNCHANGED <<reviews, last_id>>
    /\ UNCHANGED appvars

\* delete_all_reviews(owner): DELETE FROM reviews WHERE owner = ?; the
\* counter keeps its value, so an id is never given twice.
delete_all_reviews(owner) ==
    /\ reviews' = reviews \ OwnedBy(reviews, owner)
    /\ ret' = ReturnNone
    /\ op' = [name |-> "delete_all_reviews", owner |-> owner]
    /\ UNCHANGED last_id
    /\ UNCHANGED appvars

InsertReviews ==
    \E owner \in Owners, source \in Sources, d \in SeqsUpTo(NewRows, MaxInsert) :
        insert_reviews(owner, d, source)

FetchReviews == \E owner \in Owners : fetch_reviews(owner)

DeleteAllReviews == \E owner \in Owners : delete_all_reviews(owner)

\* ----------------------------------------------------------- specifications

InitRest ==
    /\ exc = "none"
    /\ prev = <<>>
    /\ reviews = {}
    /\ last_id = 0
    /\ ret = ReturnNone
    /\ op = NoCall

\* The whole pipeline, as main() runs it.
Init ==
    /\ df \in {[i \in 1..Len(s) |-> Row(s[i])] : s \in SeqsUpTo(PipelineTexts, MaxReviews)}
              \cup {Copies(StopWordText, n) : n \in 1..MaxReviews}
    /\ n_clusters \in MinSlider..MaxSlider
    /\ df_sent = Unset
    /\ df_clustered = Unset
    /\ cluster_keywords = Unset
    /\ issue_table = Unset
    /\ pc = "start"
    /\ InitRest

Next == Analyze \/ Rerun

Spec == Init /\ [][Next]_vars

\* add_sentiment alone, on tables of texts of every compound of interest.
InitSentiment ==
    /\ df \in {[i \in 1..Len(s) |-> Row(s[i])] : s \in SeqsUpTo(SentimentTexts, MaxSentRows)}
    /\ n_clusters = MinSlider
    /\ df_sent = Unset
    /\ df_clustered = Unset
    /\ cluster_keywords = Unset
    /\ issue_table = Unset
    /\ pc = "start"
    /\ InitRest

NextSentiment == CallAddSentiment

SpecSentiment == InitSentiment /\ [][NextSentiment]_vars

\* cluster_issues alone, on scored tables: every table of up to
\* MaxClusterRows reviews, and tables of up to MaxCount equal reviews with
\* every requested count.
InitCluster ==
    /\ df = Unset
    /\ \/ /\ df_sent \in {add_sentiment([i \in 1..Len(s) |-> Row(s[i])]) :
                            s \in SeqsUpTo(ClusterTexts, MaxClusterRows)}
          /\ n_clusters \in MinSlider..MaxSlider
       \/ /\ df_sent \in {add_sentiment(Copies(t, n)) :
                            t \in PipelineTexts, n \in 0..MaxCount}
          /\ n_clusters \in RequestedCounts
    /\ df_clustered = Unset
    /\ cluster_keywords = Unset
    /\ issue_table = Unset
    /\ pc = "scored"
    /\ InitRest

NextCluster == CallClusterIssues

SpecCluster == InitCluster /\ [][NextCluster]_vars

\* compute_issue_table alone: every table of up to MaxScoreRows clustered rows
\* with plain keywords, and one-cluster tables with every keyword list of up
\* to MaxKeywords keywords.
InitScoring ==
    /\ df = Unset
    /\ df_sent = Unset
    /\ n_clusters = MinSlider
    /\ \/ /\ df_clustered \in SeqsUpTo(ScoreRows, MaxScoreRows)
          /\ cluster_keywords \in
                UNION {[D -> PlainKeywordLists] : D \in {{0}, ScoreClusters}}
       \/ /\ df_clustered \in {<<ScoredRow(c, 0)>> : c \in ScoreCompounds}
          /\ cluster_keywords \in
                {[k \in {0} |-> kws] : kws \in SeqsUpTo(KeywordPool, MaxKeywords)}
    /\ issue_table = Unset
    /\ pc = "clustered"
    /\ InitRest

NextScoring == CallComputeIssueTable

SpecScoring == InitScoring /\ [][NextScoring]_vars

\* The reviews table under any calls of the three functions of db.py by any
\* owners, starting from the empty table init_db creates.
InitDb ==
    /\ df = Unset
    /\ n_clusters = MinSlider
    /\ df_sent = Unset
    /\ df_clustered = Unset
    /\ cluster_keywords = Unset
    /\ issue_table = Unset
    /\ pc = "storage"
    /\ InitRest

NextDb == InsertReviews \/ FetchReviews \/ DeleteAllReviews

SpecDb == InitDb /\ [][NextDb]_vars

\* The three stages called one after the other on a table of reviews.
NextStages == CallAddSentiment \/ CallClusterIssues \/ CallComputeIssueTable

SpecStages == Init /\ [][NextStages]_vars

\* ------------------------------------------------------------------ claims

\* The sum of field f over the rows of a table.
RECURSIVE SumField(_, _)
SumField(t, f) == IF Len(t) = 0 THEN 0 ELSE t[1][f] + SumField(Tail(t), f)

\* The sum of the compound scores of the rows of cluster c.
ClusterSum(d, c) ==
    SumField(SelectSeq(d, LAMBDA r : r.cluster = c), "sentiment_compound")

ClusterSize(d, c) == Len(SelectSeq(d, LAMBDA r : r.cluster = c))

\* C1: add_sentiment labels every compound score with inclusive outer
\* thresholds: score <= -0.05 is negative, -0.05 < score < 0.05 is neutral,
\* score >= 0.05 is positive.
C1_InclusiveThresholds ==
    pc = "scored" =>
        \A i \in 1..Len(df_sent) :
            LET c == df_sent[i].sentiment_compound
                l == df_sent[i].sentiment_label
            IN  /\ (c <= -500) => l = "negative"
                /\ (-500 < c /\ c < 500) => l = "neutral"
                /\ (c >= 500) => l = "positive"

\* C2 (as claimed): every row's priority_score is
\* (frequency_pct * 100) * (severity * 100) * (ease * 100) / 10000 rounded to
\* 2 decimals, frequency_pct being the percentage frequency / total * 100.
\* With severity = sevnum / (2 * freq * 10000) and ease = e / 1000 this is
\* sevnum * e / (20 * total) hundredths.
C2_PriorityFromPercentage ==
    pc = "done" =>
        \A k \in 1..Len(issue_table) :
            LET r == issue_table[k]
                total == Len(df_clustered)
                sevnum == Max(0, r.frequency * 10000 - ClusterSum(df_clustered, r.cluster))
            IN  r.priority_score =
                    RoundHalfEven(sevnum * r.ease_to_fix_0_1, 20 * total)

\* C2 (amended): every row's priority_score is
\* (frequency / total * 100) * (severity * 100) * (ease * 100) / 10000 rounded
\* to 2 decimals: the factor written frequency_pct * 100 is the percentage
\* itself, the fraction frequency / total times 100.  In hundredths this is
\* sevnum * e / (2000 * total).
C2_PriorityFromFraction ==
    pc = "done" =>
        \A k \in 1..Len(issue_table) :
            LET r == issue_table[k]
                total == Len(df_clustered)
                sevnum == Max(0, r.frequency * 10000 - ClusterSum(df_clustered, r.cluster))
            IN  /\ r.frequency = ClusterSize(df_clustered, r.cluster)
                /\ r.priority_score =
                    RoundHalfEven(sevnum * r.ease_to_fix_0_1, 2000 * total)

\* A table with a row of a cluster that holds part of the reviews, with the
\* raised ease and a priority above zero.
C2_Witness ==
    /\ pc = "done"
    /\ \E k \in 1..Len(issue_table) :
        /\ issue_table[k].frequency < Len(df_clustered)
        /\ issue_table[k].ease_to_fix_0_1 = 750
        /\ issue_table[k].avg_sentiment = 333
        /\ issue_table[k].priority_score > 0

\* C3: the issue table is sorted in descending order of priority_score, and
\* rows of equal priority_score are in ascending cluster-id order.
C3_SortedWithStableTies ==
    pc = "done" =>
        \A i, j \in 1..Len(issue_table) :
            i < j =>
                \/ issue_table[i].priority_score > issue_table[j].priority_score
                \/ /\ issue_table[i].priority_score = issue_table[j].priority_score
                   /\ issue_table[i].cluster < issue_table[j].cluster

\* The cluster ids the rows of a clustered table carry.
UsedClusters(d) == {d[i].cluster : i \in 1..Len(d)}

\* The effective cluster count of a run on n >= 5 reviews: the keys of the
\* keyword mapping are range(n_clusters) after the clamp.
EffectiveCount == Cardinality(DOMAIN cluster_keywords)

\* C4 (as claimed): after a run on at least 5 reviews every review carries one
\* cluster id in [0, K_effective), the ids in use are exactly
\* 0..K_effective-1, and the "(empty)" placeholder is never emitted.
C4_DenseClusterIds ==
    (pc = "clustered" /\ Len(df_sent) >= 5) =>
        /\ Len(df_clustered) = Len(df_sent)
        /\ DOMAIN cluster_keywords = 0..(EffectiveCount - 1)
        /\ UsedClusters(df_clustered) = 0..(EffectiveCount - 1)
        /\ \A c \in DOMAIN cluster_keywords : cluster_keywords[c] # EmptyKeywords

\* C4 (amended): after a run on at least 5 reviews every review carries one
\* cluster id in [0, K_effective); the ids in use are a non-empty subset of
\* 0..K_effective-1, which may have gaps; the keyword mapping has a key for
\* every id of 0..K_effective-1, and its entry is the "(empty)" placeholder
\* exactly for the ids no review carries.
C4_ClusterIdsInRange ==
    (pc = "clustered" /\ Len(df_sent) >= 5) =>
        /\ Len(df_clustered) = Len(df_sent)
        /\ \A i \in 1..Len(df_clustered) :
            df_clustered[i] = WithColumn(df_sent[i], "cluster", df_clustered[i].cluster)
        /\ EffectiveCount = Max(2, Min(n_clusters, Max(2, Len(df_sent) \div 3)))
        /\ DOMAIN cluster_keywords = 0..(EffectiveCount - 1)
        /\ UsedClusters(df_clustered) # {}
        /\ UsedClusters(df_clustered) \subseteq 0..(EffectiveCount - 1)
        /\ \A c \in DOMAIN cluster_keywords :
            (cluster_keywords[c] = EmptyKeywords) <=> (c \notin UsedClusters(df_clustered))

\* A run on at least 5 reviews that leaves a cluster id without reviews.
C4_Witness ==
    /\ pc = "clustered"
    /\ Len(df_sent) >= 5
    /\ UsedClusters(df_clustered) = {0}
    /\ cluster_keywords[1] = EmptyKeywords

\* C5: on fewer than 5 reviews, whatever the requested count, cluster_issues
\* returns without an error, every review has cluster id 0 and the keyword
\* mapping is {0: ["mixed"]}.
C5_FewReviewsOneCluster ==
    (pc # "scored" /\ Len(df_sent) < 5) =>
        /\ pc = "clustered"
        /\ exc = "none"
        /\ df_clustered = [i \in 1..Len(df_sent) |-> WithColumn(df_sent[i], "cluster", 0)]
        /\ DOMAIN cluster_keywords = {0}
        /\ cluster_keywords[0] = << <<"m","i","x","e","d">> >>

\* A run on 4 reviews with a requested count above the review count.
C5_Witness ==
    /\ pc = "clustered"
    /\ Len(df_sent) = 4
    /\ n_clusters > 4
    /\ \A i \in 1..4 : df_clustered[i].cluster = 0

\* C6: on n >= 5 reviews the effective cluster count is
\* max(2, min(K_requested, max(2, n // 3))), at least 2, at most
\* max(2, n // 3), and n >= 3 * K_effective whenever n >= 6.
C6_EffectiveClusterCount ==
    (pc = "clustered" /\ Len(df_sent) >= 5) =>
        LET n == Len(df_sent)
            cap == IF n \div 3 > 2 THEN n \div 3 ELSE 2
            want == IF n_clusters < 2 THEN 2
                    ELSE IF n_clusters > cap THEN cap ELSE n_clusters
        IN  /\ DOMAIN cluster_keywords = 0..(EffectiveCount - 1)
            /\ EffectiveCount = want
            /\ EffectiveCount >= 2
            /\ EffectiveCount <= cap
            /\ (n >= 6) => (n >= 3 * EffectiveCount)

\* A run whose requested count is above the review count and clamped to 4.
C6_Witness ==
    /\ pc = "clustered"
    /\ Len(df_sent) >= 12
    /\ n_clusters > Len(df_sent)
    /\ EffectiveCount = 4

\* C7: the frequency values of the rows sum to the number of reviews, and the
\* frequency_pct values sum to 100 up to 0.05 per row.
C7_FrequenciesSum ==
    pc = "done" =>
        /\ SumField(issue_table, "frequency") = Len(df_clustered)
        /\ 2 * Abs(SumField(issue_table, "frequency_pct") - 1000) <= Len(issue_table)

\* A table of three rows whose rounded percentages do not sum to 100.
C7_Witness ==
    /\ pc = "done"
    /\ Len(issue_table) = 3
    /\ SumField(issue_table, "frequency_pct") # 1000

\* Trigger t occurs in string s at position i, letter case of s ignored.
OccursAt(s, t, i) ==
    /\ i + Len(t) - 1 <= Len(s)
    /\ \A j \in 1..Len(t) : LowerChar(s[i + j - 1]) = t[j]

\* The rules with a trigger occurring in the joined keywords.
MatchingRules(keywords) ==
    LET joined == Join(keywords, <<" ">>)
    IN  {i \in 1..Len(ACTION_RULES) :
            \E j \in 1..Len(ACTION_RULES[i].triggers) :
                \E q \in 1..Len(joined) : OccursAt(joined, ACTION_RULES[i].triggers[j], q)}

\* C8: recommended_action is the action of the first rule, in declaration
\* order, with a trigger occurring (case ignored) in the joined keywords, and
\* the fallback text exactly when no rule has one.
C8_FirstMatchingRule ==
    pc = "done" =>
        \A k \in 1..Len(issue_table) :
            LET r == issue_table[k]
                kws == IF r.cluster \in DOMAIN cluster_keywords
                       THEN cluster_keywords[r.cluster] ELSE <<>>
                hits == MatchingRules(kws)
            IN  /\ (hits # {}) =>
                    \E i \in hits : /\ \A h \in hits : i <= h
                                    /\ r.recommended_action = ACTION_RULES[i].action
                /\ (hits = {}) <=> (r.recommended_action = FallbackAction)

\* Keywords in which a trigger of the second rule, in capitals, comes before a
\* trigger of the first rule: the first rule wins.
C8_Witness ==
    /\ pc = "done"
    /\ cluster_keywords[0] = << <<"R","U","D","E">>, <<"w","a","i","t">> >>
    /\ issue_table[1].recommended_action = ACTION_RULES[1].action

\* C9: severity = max(0, (1 - avg_sentiment) / 2) lies in [0, 1], does not
\* increase with avg_sentiment, and is 0 at +1, 0.5 at 0 and 1 at -1.
C9_SeverityRange ==
    pc = "done" =>
        /\ \A k \in 1..Len(issue_table) :
            LET r == issue_table[k]
                sum == ClusterSum(df_clustered, r.cluster)
            IN  /\ r.severity_score_0_1 =
                    RoundHalfEven(Max(0, r.frequency * 10000 - sum), 20 * r.frequency)
                /\ r.severity_score_0_1 >= 0
                /\ r.severity_score_0_1 <= 1000
                /\ (r.avg_sentiment = 1000) => (r.severity_score_0_1 = 0)
                /\ (r.avg_sentiment = 0) => (r.severity_score_0_1 = 500)
                /\ (r.avg_sentiment = -1000) => (r.severity_score_0_1 = 1000)
        /\ \A k, l \in 1..Len(issue_table) :
            (issue_table[k].avg_sentiment <= issue_table[l].avg_sentiment)
                => (issue_table[k].severity_score_0_1 >= issue_table[l].severity_score_0_1)

\* A table with the three named averages -1, 0 and +1.
C9_Witness ==
    /\ pc = "done"
    /\ {issue_table[k].avg_sentiment : k \in 1..Len(issue_table)} = {-1000, 0, 1000}

\* C10: a run over the same reviews in another order yields the same issue
\* table, except possibly for the order of rows of equal priority_score.
C10_OrderIndependent ==
    (pc = "done" /\ Len(prev) > 0) =>
        LET a == prev[1].issue_table
            b == issue_table
        IN  /\ Len(a) = Len(b)
            /\ Range(a) = Range(b)
            /\ \A i \in 1..Len(a) :
                (a[i] # b[i]) => (a[i].priority_score = b[i].priority_score)

C12_EmptyInputInvalidInput ==
    (Len(df) = 0 /\ pc # "start") =>
        /\ pc = "error"
        /\ exc = "InvalidInput"
        /\ issue_table = Unset

\* The columns each stage derives.
SentimentColumns == {"sentiment_compound", "sentiment_label"}

ClusterColumns == {"cluster"}

IssueColumns ==
    {"cluster", "issue_label", "frequency", "frequency_pct", "avg_sentiment",
     "severity_score_0_1", "ease_to_fix_0_1", "priority_score",
     "recommended_action"}

\* Table out has the rows and columns of table d, with the same values, plus
\* the columns cols and no others.
ExtendsBy(out, d, cols) ==
    /\ Len(out) = Len(d)
    /\ \A i \in 1..Len(d) :
        /\ DOMAIN out[i] = (DOMAIN d[i]) \cup cols
        /\ \A f \in DOMAIN d[i] : out[i][f] = d[i][f]

\* add_sentiment and cluster_issues, when they return, leave their input
\* table as it was and return it extended by their derived columns.
CopyingStagesFrame ==
    /\ (pc = "start" /\ pc' = "scored") =>
            /\ df' = df
            /\ ExtendsBy(df_sent', df, SentimentColumns)
    /\ (pc = "scored" /\ pc' = "clustered") =>
            /\ df_sent' = df_sent
            /\ ExtendsBy(df_clustered', df_sent, ClusterColumns)

\* C13, as claimed: none of the three stages modifies its input (the table,
\* and for compute_issue_table the keyword mapping too), and each of the
\* three returns a table with the input's rows and columns plus only its
\* derived columns.
C13_StagesExtendInput ==
    [][/\ CopyingStagesFrame
       /\ (pc = "clustered" /\ pc' = "done") =>
            /\ df_clustered' = df_clustered
            /\ cluster_keywords' = cluster_keywords
            /\ ExtendsBy(issue_table', df_clustered, IssueColumns)]_vars

\* C13, amended: none of the three stages modifies its input; add_sentiment
\* and cluster_issues (in both branches) return a table with the input's rows
\* and columns plus only their derived columns, and compute_issue_table
\* returns a table of its own columns with one row for each cluster of the
\* input.
C13_StagesLeaveInput ==
    [][/\ CopyingStagesFrame
       /\ (pc = "clustered" /\ pc' = "done") =>
            /\ df_clustered' = df_clustered
            /\ cluster_keywords' = cluster_keywords
            /\ \A k \in 1..Len(issue_table') : DOMAIN issue_table'[k] = IssueColumns
            /\ Len(issue_table') = Cardinality(UsedClusters(df_clustered))
            /\ {issue_table'[k].cluster : k \in 1..Len(issue_table')}
                    = UsedClusters(df_clustered)]_vars

\* The three stages have run on five or more reviews that the clustering
\* branch split into two clusters, and each table is there next to its input.
C13_Witness ==
    /\ pc = "done"
    /\ Len(df) >= MinReviews
    /\ \A i \in 1..Len(df) : DOMAIN df[i] = {"review_text"}
    /\ \A i \in 1..Len(df_sent) : "cluster" \notin DOMAIN df_sent[i]
    /\ Cardinality(UsedClusters(df_clustered)) = 2
    /\ Len(issue_table) = 2

\* C14: over any calls of insert_reviews, fetch_reviews and
\* delete_all_reviews by any owners, a stored review leaves the table only
\* in a call of delete_all_reviews by its own owner: insert_reviews and
\* fetch_reviews remove and alter no row, delete_all_reviews(o) leaves the
\* rows of every other owner as they are (and adds none), and
\* fetch_reviews(o) returns exactly the rows stored for o.
C14_OnlyOwnDeleteRemoves ==
    [][/\ \A r \in reviews :
            (r \notin reviews') =>
                (op'.name = "delete_all_reviews" /\ op'.owner = r.owner)
       /\ (op'.name = "delete_all_reviews") =>
            /\ reviews' \subseteq reviews
            /\ \A r \in reviews' : r.owner # op'.owner
       /\ (op'.name = "fetch_reviews") =>
            /\ reviews' = reviews
            /\ Len(ret'.df) = Cardinality({r \in reviews : r.owner = op'.owner})
            /\ {ret'.df[k].id : k \in 1..Len(ret'.df)}
                    = {r.id : r \in {q \in reviews : q.owner = op'.owner}}
            /\ \A k \in 1..Len(ret'.df) : \E r \in reviews :
                    /\ r.owner = op'.owner
                    /\ r.id = ret'.df[k].id
                    /\ r.source = ret'.df[k].source
                    /\ r.review_text = ret'.df[k].review_text
                    /\ r.rating = ret'.df[k].rating
                    /\ r.date = ret'.df[k].date
                    /\ r.created_at = ret'.df[k].created_at]_vars

\* Both owners had reviews stored, one of them has just deleted theirs, and
\* the other's are still there.
C14_Witness ==
    /\ op.name = "delete_all_reviews"
    /\ last_id > Cardinality(reviews)
    /\ reviews # {}
    /\ \A r \in reviews : r.owner # op.owner

====
